---- MODULE Spec2Model ----
(***************************************************************************)
(* RagByKilo: URLChunker / WebContentExtractor (src/src/url_processor.py)  *)
(* and the ChromaDB collection it writes to (src/src/chroma_manager.py).   *)
(*                                                                         *)
(* Strings are sequences of one-character strings, so that formatting,     *)
(* concatenation and splitting are computed character by character.        *)
(***************************************************************************)
EXTENDS Integers, Sequences, FiniteSets, TLC

(***************************************************************************)
(* Text helpers (Python str operations used by the code).                  *)
(***************************************************************************)

\* The element of a one-element set: {e(v) : v \in {x}} computes x once and
\* names it v.
Only(S) == CHOOSE x \in S : TRUE

\* Characters matched by the regex class \s and stripped by str.strip().
Whitespace == {" ", "\n", "\t", "\r"}

\* Length of the maximal prefix of s made of characters of the class C.
RECURSIVE RunLen(_, _)
RunLen(s, C) ==
    IF s = <<>> \/ s[1] \notin C THEN 0 ELSE 1 + RunLen(Tail(s), C)

\* re.sub(r'[C]{n,}', rep, s): every maximal run of at least n characters
\* of the class C is replaced by rep.
RECURSIVE ReSubRuns(_, _, _, _)
ReSubRuns(s, C, n, rep) ==
    IF s = <<>> THEN <<>>
    ELSE LET k == RunLen(s, C)
         IN  IF k >= n
             THEN rep \o ReSubRuns(SubSeq(s, k + 1, Len(s)), C, n, rep)
             ELSE IF k > 0
                  THEN SubSeq(s, 1, k) \o ReSubRuns(SubSeq(s, k + 1, Len(s)), C, n, rep)
                  ELSE <<s[1]>> \o ReSubRuns(Tail(s), C, n, rep)

\* str.lstrip() / str.rstrip() / str.strip()
RECURSIVE LStrip(_)
LStrip(s) == IF s # <<>> /\ s[1] \in Whitespace THEN LStrip(Tail(s)) ELSE s

RECURSIVE RStrip(_)
RStrip(s) ==
    IF s # <<>> /\ s[Len(s)] \in Whitespace
    THEN RStrip(SubSeq(s, 1, Len(s) - 1)) ELSE s

Strip(s) == RStrip(LStrip(s))

\* WebContentExtractor.clean_text
clean_text(text) ==
    IF text = <<>> THEN <<>>
    ELSE LET t1 == ReSubRuns(text, Whitespace, 1, <<" ">>)
             t2 == ReSubRuns(t1, {"."}, 3, <<".", ".", ".">>)
             t3 == ReSubRuns(t2, {"!"}, 2, <<"!">>)
             t4 == ReSubRuns(t3, {"?"}, 2, <<"?">>)
             t5 == ReSubRuns(t4, {"\r", "\n", "\t"}, 1, <<" ">>)
         IN  Strip(t5)

\* str(i) for a non-negative integer: its decimal digits.
Digits == <<"0", "1", "2", "3", "4", "5", "6", "7", "8", "9">>

RECURSIVE Dec(_)
Dec(n) == IF n < 10 THEN <<Digits[n + 1]>>
          ELSE Dec(n \div 10) \o <<Digits[(n % 10) + 1]>>

(***************************************************************************)
(* The text splitter.  The code delegates to the third-party               *)
(* RecursiveCharacterTextSplitter; the algorithm below is the one the      *)
(* specification gives for it (section 4.1): separator priority, greedy    *)
(* packing, overlap seeding, recursive split of oversized pieces.          *)
(***************************************************************************)

\* The separator list the code passes to the splitter.
separators == << <<"\n", "\n">>, <<"\n">>, <<".", " ">>, <<"!", " ">>,
                 <<"?", " ">>, <<";", " ">>, <<",", " ">>, <<" ">>, <<>> >>

\* Position of the first occurrence of the non-empty sep in text, 0 if none.
FirstOccurrence(text, sep) ==
    LET n == Len(sep)
        P == {i \in 1..(Len(text) - n + 1) : SubSeq(text, i, i + n - 1) = sep}
    IN  IF P = {} THEN 0 ELSE CHOOSE i \in P : \A j \in P : i <= j

\* Step 1: index in seps of the first separator that occurs in text (the
\* empty separator always "occurs"); 0 when none does.
ChooseSeparator(text, seps) ==
    LET K == {k \in 1..Len(seps) :
                 seps[k] = <<>> \/ FirstOccurrence(text, seps[k]) > 0}
    IN  IF K = {} THEN 0 ELSE CHOOSE k \in K : \A j \in K : k <= j

\* Step 2: the pieces of text, each keeping the separator that ended it.
RECURSIVE SplitOn(_, _)
SplitOn(text, sep) ==
    IF text = <<>> THEN <<>>
    ELSE IF sep = <<>>
         THEN <<SubSeq(text, 1, 1)>> \o SplitOn(Tail(text), sep)
         ELSE LET i == FirstOccurrence(text, sep)
              IN  IF i = 0 THEN <<text>>
                  ELSE LET e == i + Len(sep) - 1
                       IN  <<SubSeq(text, 1, e)>>
                           \o SplitOn(SubSeq(text, e + 1, Len(text)), sep)

\* A variant that seeds nothing.
OverlapTail_none(chunk, overlap) == <<>>

\* The trailing overlap characters of an emitted chunk.
OverlapTail(chunk, overlap) ==
    IF overlap >= Len(chunk) THEN chunk
    ELSE SubSeq(chunk, Len(chunk) - overlap + 1, Len(chunk))

\* Step 4, separator list exhausted: a hard cut every size - overlap
\* characters, each cut taking at most size characters.
RECURSIVE HardCut(_, _, _)
HardCut(text, size, overlap) ==
    IF Len(text) <= size THEN <<text>>
    ELSE <<SubSeq(text, 1, size)>>
         \o HardCut(SubSeq(text, size - overlap + 1, Len(text)), size, overlap)

\* A variant of the packing that emits every piece as a chunk of its own.
Pack_each(pieces, buffer, rest, size, overlap) == pieces

\* Steps 1-5 on one text with the separators still available.
RECURSIVE SplitRec(_, _, _, _)
RECURSIVE Pack(_, _, _, _, _)
Pack(pieces, buffer, rest, size, overlap) ==
    IF pieces = <<>>
    THEN IF buffer = <<>> THEN <<>> ELSE <<buffer>>
    ELSE LET p == Head(pieces)
         IN  IF Len(p) > size
             THEN (IF buffer = <<>> THEN <<>> ELSE <<buffer>>)
                  \o (IF rest = <<>> THEN HardCut(p, size, overlap)
                      ELSE SplitRec(p, rest, size, overlap))
                  \o Pack(Tail(pieces), <<>>, rest, size, overlap)
             ELSE IF Len(buffer) + Len(p) <= size
                  THEN Pack(Tail(pieces), buffer \o p, rest, size, overlap)
                  ELSE <<buffer>>
                       \o Pack(Tail(pieces), OverlapTail(buffer, overlap) \o p,
                               rest, size, overlap)

SplitRec(text, seps, size, overlap) ==
    LET k    == ChooseSeparator(text, seps)
        sep  == IF k = 0 THEN <<>> ELSE seps[k]
        rest == IF k = 0 THEN <<>> ELSE SubSeq(seps, k + 1, Len(seps))
    IN  Pack(SplitOn(text, sep), <<>>, rest, size, overlap)

\* Step 6 and the contract: chunks that are empty or whitespace-only are
\* dropped.
split_text(text, size, overlap) ==
    SelectSeq(SplitRec(text, separators, size, overlap),
              LAMBDA c : Strip(c) # <<>>)

\* split(text, policy) of section 4.1, for a policy with a separator
\* priority list of its own.
split(text, policy) ==
    SelectSeq(SplitRec(text, policy.separators, policy.size, policy.overlap),
              LAMBDA c : Strip(c) # <<>>)

(***************************************************************************)
(* Bounds and the inputs the model draws from.                             *)
(***************************************************************************)

\* Number of process_url invocations explored in one behaviour.
MaxCalls == 3

\* None, and the truthiness test `if source_name:`.
None == <<"None">>
Truthy(x) == x # None /\ x # <<>>

\* "s://n/a", "s://n/a_1" and the scheme-less "n/a".
U1 == <<"s", ":", "/", "/", "n", "/", "a">>
U2 == <<"s", ":", "/", "/", "n", "/", "a", "_", "1">>
U3 == <<"n", "/", "a">>
Urls == {U1, U2, U3}

\* What soup.get_text can return for the page behind a URL; the page may
\* change between two fetches.  No page has a <title> or <meta> tag.
Pages(url) ==
    IF url = U1 THEN { <<"a", "b", " ", " ", "0", "_", "x">> }
    ELSE { <<"x">>, <<" ">> }

CollectionNames == {"c1"}

\* The (chunk_size, chunk_overlap) pairs a splitter can be built with.
DefaultChunkSize == 1000
DefaultChunkOverlap == 200
Policies == { [size |-> DefaultChunkSize, overlap |-> DefaultChunkOverlap],
              [size |-> 3, overlap |-> 0] }

\* The (chunk_size, chunk_overlap, source_name) combinations callers pass.
CallShapes ==
    { [size |-> DefaultChunkSize, overlap |-> DefaultChunkOverlap, source |-> None],
      [size |-> 3, overlap |-> 0, source |-> <<"w">>] }

(***************************************************************************)
(* WebContentExtractor                                                     *)
(***************************************************************************)

\* urlparse(url): the scheme is what precedes the first ":", the netloc
\* what follows "//" up to the next "/".
UrlScheme(url) ==
    LET i == FirstOccurrence(url, <<":">>)
    IN  IF i = 0 THEN <<>> ELSE SubSeq(url, 1, i - 1)

UrlNetloc(url) ==
    LET i    == FirstOccurrence(url, <<":">>)
        rest == SubSeq(url, i + 1, Len(url))
    IN  IF Len(rest) >= 2 /\ SubSeq(rest, 1, 2) = <<"/", "/">>
        THEN LET host == SubSeq(rest, 3, Len(rest))
                 j    == FirstOccurrence(host, <<"/">>)
             IN  IF j = 0 THEN host ELSE SubSeq(host, 1, j - 1)
        ELSE <<>>

\* What the network can answer to session.get + raise_for_status.
NetOutcomes == {"ok", "timeout", "http_error"}

\* fetch_content: a value [kind |-> "return", ...] or [kind |-> "raise", ...];
\* every except clause re-raises.
fetch_content(url, net, page) ==
    IF UrlScheme(url) = <<>> \/ UrlNetloc(url) = <<>>
    THEN [kind |-> "raise", error |-> "invalid_url"]
    ELSE IF net # "ok"
         THEN [kind |-> "raise", error |-> net]
         ELSE [kind |-> "return", html |-> page]

\* extract_text: BeautifulSoup either parses the page or raises.
extract_text(html, parses) ==
    IF parses THEN [kind |-> "return", text |-> clean_text(html)]
    ELSE [kind |-> "raise", error |-> "parse_error"]

\* extract_metadata: both the normal path and the except path return these
\* seven keys; with no <title>/<meta> tag on the page they agree.
extract_metadata(html, url, now) ==
    [url |-> url, processed_date |-> now, title |-> <<>>,
     description |-> <<>>, keywords |-> <<>>, author |-> <<>>,
     language |-> <<>>]

(***************************************************************************)
(* URLChunker.create_chunks                                                *)
(***************************************************************************)

\* hashlib.sha256(...).hexdigest(), taken as collision-free: the digest
\* determines the hashed string and nothing else does.
sha256(str) == <<"sha256", str>>

\* f"{metadata['url']}_{i}_{chunk}", the string that is hashed.
HashInput(url, i, chunk) == url \o <<"_">> \o Dec(i) \o <<"_">> \o chunk

\* A variant that also hashes the processing date.
chunk_id_dated(metadata, i, chunk, source_name) ==
    sha256(HashInput(metadata.url, i, chunk) \o Dec(metadata.processed_date))

\* A variant that hashes the content of the chunk alone.
chunk_id_content(metadata, i, chunk, source_name) == sha256(chunk)

chunk_id(metadata, i, chunk, source_name) ==
    sha256(HashInput(metadata.url, i, chunk))

\* A variant in which a source key of the base metadata wins.
chunk_metadata_setdefault(metadata, i, chunk, source_name) ==
    [url |-> metadata.url, processed_date |-> metadata.processed_date,
     title |-> metadata.title, description |-> metadata.description,
     keywords |-> metadata.keywords, author |-> metadata.author,
     language |-> metadata.language,
     chunk_index |-> i, chunk_size |-> Len(chunk),
     source |-> IF "source" \in DOMAIN metadata THEN metadata.source
                ELSE IF Truthy(source_name) THEN source_name
                ELSE None]

\* metadata.copy() with chunk_index, chunk_size and, for a truthy
\* source_name, source set; otherwise the copy keeps the source key of
\* metadata, if it has one.  A key the dict does not hold reads as None.
chunk_metadata(metadata, i, chunk, source_name) ==
    [url |-> metadata.url, processed_date |-> metadata.processed_date,
     title |-> metadata.title, description |-> metadata.description,
     keywords |-> metadata.keywords, author |-> metadata.author,
     language |-> metadata.language,
     chunk_index |-> i, chunk_size |-> Len(chunk),
     source |-> IF Truthy(source_name) THEN source_name
                ELSE IF "source" \in DOMAIN metadata THEN metadata.source
                ELSE None]

\* A variant that numbers the chunks from 1.
create_chunks_from_one(splitter, text, metadata, source_name) ==
    Only({ [k \in 1..Len(text_chunks) |->
              [id       |-> chunk_id(metadata, k, text_chunks[k], source_name),
               document |-> text_chunks[k],
               metadata |-> chunk_metadata(metadata, k, text_chunks[k],
                                           source_name)]]
           : text_chunks \in {split_text(text, splitter.size, splitter.overlap)} })

\* create_chunks: one record (id, document, metadata) per chunk of the
\* splitter the URLChunker currently holds; Python indexes from 0.
create_chunks(splitter, text, metadata, source_name) ==
    Only({ [k \in 1..Len(text_chunks) |->
              [id       |-> chunk_id(metadata, k - 1, text_chunks[k], source_name),
               document |-> text_chunks[k],
               metadata |-> chunk_metadata(metadata, k - 1, text_chunks[k],
                                           source_name)]]
           : text_chunks \in {split_text(text, splitter.size, splitter.overlap)} })

\* The dicts of a call as objects: heap[r] is the content of the dict with
\* reference r.  A variant of dict.copy() that hands back the same object.
dict_copy_alias(heap, ref) == [heap |-> heap, ref |-> ref]

\* dict.copy(): a new object with the content of the copied one.
dict_copy(heap, ref) == [heap |-> Append(heap, heap[ref]), ref |-> Len(heap) + 1]

\* The loop of create_chunks on the objects: chunk_metadata = metadata.copy(),
\* the stores into chunk_metadata, metadatas.append(chunk_metadata).
\* metadata is the reference of the caller's dict, metadatas the references
\* appended so far, i the index of the chunk at hand.
RECURSIVE create_chunks_loop(_, _, _, _, _, _)
create_chunks_loop(heap, metadata, text_chunks, source_name, metadatas, i) ==
    IF i >= Len(text_chunks) THEN [heap |-> heap, metadatas |-> metadatas]
    ELSE LET c == dict_copy(heap, metadata)
         IN  create_chunks_loop(
                 [c.heap EXCEPT ![c.ref] =
                     chunk_metadata(@, i, text_chunks[i + 1], source_name)],
                 metadata, text_chunks, source_name,
                 Append(metadatas, c.ref), i + 1)

(***************************************************************************)
(* The store: ChromaDB collections.                                        *)
(***************************************************************************)

\* A variant that adds without replacing.
Upsert_add(held, recs, W) == held \cup {recs[k] : k \in W}

\* collection.upsert of the records recs[k], k \in W: a record whose id is
\* already held is replaced.
Upsert(held, recs, W) ==
    LET new == {recs[k] : k \in W}
    IN  {r \in held : \A n \in new : n.id # r.id} \cup new

\* A variant in which a failed upsert leaves nothing behind.
save_to_chroma_rollback(db, recs, collection_name, outcome, W) ==
    IF outcome = "ok"
    THEN [kind |-> "return",
          db |-> [exists |-> db.exists \cup {collection_name},
                  items  |-> [db.items EXCEPT ![collection_name] =
                                 Upsert(@, recs, DOMAIN recs)]]]
    ELSE [kind |-> "raise", error |-> outcome, db |-> db]

\* How a store write can end: both calls succeed, get_or_create_collection
\* raises, or upsert raises.
StoreOutcomes == {"ok", "collection_error", "upsert_error"}

\* save_to_chroma on the store db = [exists, items]: get_or_create_collection
\* then upsert; the except clause re-raises.  When upsert raises, the store
\* has taken the records W (any subset of them).
save_to_chroma(db, recs, collection_name, outcome, W) ==
    IF outcome = "collection_error"
    THEN [kind |-> "raise", error |-> "collection_error", db |-> db]
    ELSE LET written == IF outcome = "ok" THEN DOMAIN recs ELSE W
             db2 == [exists |-> db.exists \cup {collection_name},
                     items  |-> [db.items EXCEPT ![collection_name] =
                                    Upsert(@, recs, written)]]
         IN  IF outcome = "ok"
             THEN [kind |-> "return", db |-> db2]
             ELSE [kind |-> "raise", error |-> "upsert_error", db |-> db2]

(***************************************************************************)
(* URLChunker.process_url                                                  *)
(***************************************************************************)

\* A variant that reports the characters as chunks.
SuccessResult_characters(url, recs, text, metadata) ==
    [success |-> TRUE, url |-> url, chunks_created |-> Len(text),
     total_characters |-> Len(text), metadata |-> metadata]

\* The result dicts.  processing_time (wall-clock seconds) is left out.
SuccessResult(url, recs, text, metadata) ==
    [success |-> TRUE, url |-> url, chunks_created |-> Len(recs),
     total_characters |-> Len(text), metadata |-> metadata]

\* A variant that counts one chunk for a failure.
FailureResult_counted(url, error) ==
    [success |-> FALSE, error |-> error, url |-> url, chunks_created |-> 1]

FailureResult(url, error) ==
    [success |-> FALSE, error |-> error, url |-> url, chunks_created |-> 0]

\* RecursiveCharacterTextSplitter(chunk_size=..., chunk_overlap=...), the
\* constructor call of lines 285-290.  The code passes the two numbers on
\* unchecked; the only combination the library's constructor refuses is an
\* overlap larger than the chunk size (ValueError).
RecursiveCharacterTextSplitter(chunk_size, chunk_overlap) ==
    IF chunk_overlap > chunk_size
    THEN [kind |-> "raise", error |-> "invalid_policy"]
    ELSE [kind |-> "return",
          splitter |-> [size |-> chunk_size, overlap |-> chunk_overlap]]

\* Lines 284-290 raise: the parameters differ from 1000/200 and the
\* constructor refuses them.
splitter_rejected(chunk_size, chunk_overlap) ==
    /\ chunk_size # 1000 \/ chunk_overlap # 200
    /\ RecursiveCharacterTextSplitter(chunk_size, chunk_overlap).kind = "raise"

\* Lines 284-291: the splitter is replaced only when the parameters differ
\* from 1000/200; otherwise, and when the constructor raises, the one the
\* URLChunker holds is kept.
select_splitter(text_splitter, chunk_size, chunk_overlap) ==
    IF (chunk_size # 1000 \/ chunk_overlap # 200)
       /\ ~splitter_rejected(chunk_size, chunk_overlap)
    THEN RecursiveCharacterTextSplitter(chunk_size, chunk_overlap).splitter
    ELSE text_splitter

\* A variant of the try block that creates the collection before it fetches.
process_url_try_eager(splitter, db, url, collection_name, source_name, env, now) ==
    Only({
      IF f.kind = "raise"
      THEN [kind |-> "raise", error |-> f.error,
            db |-> [db EXCEPT !.exists = @ \cup {collection_name}],
            recs |-> <<>>, text |-> None]
      ELSE Only({
        IF t.kind = "raise"
        THEN [kind |-> "raise", error |-> t.error,
              db |-> [db EXCEPT !.exists = @ \cup {collection_name}],
              recs |-> <<>>, text |-> None]
        ELSE IF Strip(t.text) = <<>>
        THEN [kind |-> "return",
              db |-> [db EXCEPT !.exists = @ \cup {collection_name}],
              recs |-> <<>>, text |-> t.text,
              result |-> FailureResult(url, "empty_content")]
        ELSE Only({
          Only({
            IF w.kind = "raise"
            THEN [kind |-> "raise", error |-> w.error, db |-> w.db,
                  recs |-> recs, text |-> t.text]
            ELSE [kind |-> "return", db |-> w.db, recs |-> recs,
                  text |-> t.text,
                  result |-> SuccessResult(url, recs, t.text, metadata)]
            : w \in {save_to_chroma(db, recs, collection_name,
                                    env.store, env.written)} })
          : recs \in {create_chunks(splitter, t.text, metadata, source_name)} })
        : metadata \in {extract_metadata(f.html, url, now)},
          t \in {extract_text(f.html, env.parses)} })
      : f \in {fetch_content(url, env.net, env.page)} })

\* The try block.  env is what the environment does during the call:
\* net (the HTTP exchange), page (the text served), parses (BeautifulSoup
\* succeeds), store and written (the store write).
process_url_try(splitter, db, url, collection_name, source_name, env, now) ==
    Only({
      IF f.kind = "raise"
      THEN [kind |-> "raise", error |-> f.error, db |-> db,
            recs |-> <<>>, text |-> None]
      ELSE Only({
        IF t.kind = "raise"
        THEN [kind |-> "raise", error |-> t.error, db |-> db,
              recs |-> <<>>, text |-> None]
        ELSE IF Strip(t.text) = <<>>
        THEN [kind |-> "return", db |-> db, recs |-> <<>>, text |-> t.text,
              result |-> FailureResult(url, "empty_content")]
        ELSE Only({
          Only({
            IF w.kind = "raise"
            THEN [kind |-> "raise", error |-> w.error, db |-> w.db,
                  recs |-> recs, text |-> t.text]
            ELSE [kind |-> "return", db |-> w.db, recs |-> recs,
                  text |-> t.text,
                  result |-> SuccessResult(url, recs, t.text, metadata)]
            : w \in {save_to_chroma(db, recs, collection_name,
                                    env.store, env.written)} })
          : recs \in {create_chunks(splitter, t.text, metadata, source_name)} })
        : metadata \in {extract_metadata(f.html, url, now)},
          t \in {extract_text(f.html, env.parses)} })
      : f \in {fetch_content(url, env.net, env.page)} })

\* A variant that lets a store error through.
process_url_except_reraise(url, error) ==
    [raised |-> error \in {"upsert_error", "collection_error"},
     result |-> FailureResult(url, error)]

\* `except Exception as e`: the exception becomes a failure result.
process_url_except(url, error) ==
    [raised |-> FALSE, result |-> FailureResult(url, error)]

\* process_url: what it leaves in the URLChunker and the store, what it
\* returns (or that it raised), the records it built and the number of
\* times it called fetch_content.  An exception of the splitter constructor
\* is raised inside the try block, before the fetch.
process_url(held, db, url, collection_name, chunk_size, chunk_overlap, source_name, env, now) ==
    Only({
      Only({
        Only({
          [text_splitter |-> splitter, db |-> b.db, raised |-> out.raised,
           result |-> out.result, recs |-> b.recs, text |-> b.text,
           error |-> IF b.kind = "raise" THEN b.error ELSE "none",
           fetch_calls |-> IF splitter_rejected(chunk_size, chunk_overlap)
                           THEN 0 ELSE 1]
          : out \in {IF b.kind = "raise" THEN process_url_except(url, b.error)
                     ELSE [raised |-> FALSE, result |-> b.result]} })
        : b \in {IF splitter_rejected(chunk_size, chunk_overlap)
                 THEN [kind |-> "raise", error |-> "invalid_policy",
                       db |-> db, recs |-> <<>>, text |-> None]
                 ELSE process_url_try(splitter, db, url, collection_name,
                                      source_name, env, now)} })
      : splitter \in {select_splitter(held, chunk_size, chunk_overlap)} })

(***************************************************************************)
(* URLChunker.process_multiple_urls                                        *)
(***************************************************************************)

\* A variant that leaves the loop after a failure.
loop_done_abort(urls, i, results) ==
    \/ i > Len(urls)
    \/ results # <<>> /\ ~results[Len(results)].success

\* `for i, url in enumerate(urls, 1)`: the loop ends after the last URL.
loop_done(urls, i, results) == i > Len(urls)

\* A variant that keeps the successes only.
append_result_drop(results, url, out) ==
    IF ~out.raised /\ out.result.success THEN Append(results, out.result)
    ELSE results

\* The body of the loop: the result of process_url is appended; had it
\* raised, the except clause appends a failure result instead.
append_result(results, url, out) ==
    IF out.raised THEN Append(results, FailureResult(url, out.error))
    ELSE Append(results, out.result)

\* sum(r['chunks_created'] for r in results)
RECURSIVE SumChunks(_)
SumChunks(results) ==
    IF results = <<>> THEN 0
    ELSE Head(results).chunks_created + SumChunks(Tail(results))

\* sum(1 for r in results if r['success'])
RECURSIVE CountSuccess(_)
CountSuccess(results) ==
    IF results = <<>> THEN 0
    ELSE (IF Head(results).success THEN 1 ELSE 0) + CountSuccess(Tail(results))

(***************************************************************************)
(* State                                                                   *)
(***************************************************************************)

VARIABLES
    text_splitter,  \* URLChunker.text_splitter: [size, overlap]
    db,             \* the ChromaDB client: [exists, items]
    calls,          \* process_url invocations so far (the clock)
    last,           \* the last process_url invocation: inputs and outcome
    hashed,         \* every (url, index, text, id, ...) create_chunks built
    steady,         \* every invocation so far returned success, went to
                    \* one collection, and each URL always served the same
                    \* page and came with the same parameters
    subs,           \* while steady: the (url, page, parameters,
                    \* collection) submitted so far
    tried,          \* where retries are followed: the (url, page,
                    \* parameters, collection) whose store write failed on
                    \* a collection holding no record of that URL, the URL
                    \* not having been written otherwise since
    batch,          \* the running process_multiple_urls call, if any
    threads,        \* the process_url calls running in threads of their
                    \* own on the one URLChunker: position and locals
    unit            \* one direct call of the splitter or of create_chunks:
                    \* its arguments and what it returned

vars == <<text_splitter, db, calls, last, hashed, steady, subs, tried, batch,
          threads, unit>>

Ids(items) == {r.id : r \in items}

\* count_items: the number of records, when the collection exists.
Count(d, c) == IF c \in d.exists THEN Cardinality(d.items[c]) ELSE -1

\* No process_url invocation yet.  For an invocation: its arguments, the
\* page fetched, the cleaned text, the records built (recs), the outcome
\* (raised, result, error), the records a failed upsert had written
\* (written), the collection before and after, and how the invocation
\* relates to the one before it (repeat, prevSuccess, prevCountAfter) and
\* to the earlier ones (resubmit).
\* fetch_calls counts the calls of fetch_content; existedBefore says that
\* the collection existed when the invocation began.
NoCall ==
    [valid |-> FALSE, url |-> <<>>, collection |-> "", size |-> 0,
     overlap |-> 0, source |-> None, page |-> None, text |-> None,
     recs |-> <<>>, raised |-> FALSE, result |-> FailureResult(<<>>, "none"),
     error |-> "none", written |-> {}, before |-> {}, idsBefore |-> {},
     idsAfter |-> {},
     countAfter |-> -1, repeat |-> FALSE, prevSuccess |-> FALSE,
     prevCountAfter |-> -1, resubmit |-> FALSE,
     fetch_calls |-> 0, existedBefore |-> FALSE]

\* process_multiple_urls: pc is "loop" while the for loop runs and "done"
\* once results is returned; i is the 1-based position of the next URL.
\* Kept per iteration, next to results: attempted (the URL process_url was
\* invoked on), errors (what went wrong, "none" if nothing), upserted (the
\* records that invocation left in the store) and chars (the length of the
\* cleaned page text of a successful invocation).
Idle ==
    [pc |-> "idle", urls |-> <<>>, collection |-> "", size |-> 0,
     overlap |-> 0, source |-> None, i |-> 1, results |-> <<>>,
     attempted |-> <<>>, errors |-> <<>>, upserted |-> <<>>,
     chars |-> <<>>, successful |-> 0, total_chunks |-> 0]

\* The threads that may call process_url, and a thread that has not called.
Threads == {"t1", "t2"}

NoThread ==
    [pc |-> "idle", url |-> <<>>, collection |-> "", size |-> 0,
     overlap |-> 0, source |-> None, net |-> "ok", page |-> None,
     now |-> 0, text |-> None, recs |-> <<>>,
     result |-> FailureResult(<<>>, "none")]

\* No direct call.
NoUnit ==
    [pc |-> "none", text |-> <<>>, separators |-> <<>>, metadata |-> <<>>,
     source_name |-> None, chunks |-> <<>>, recs |-> <<>>,
     heap |-> <<>>, metadatas |-> <<>>, collection |-> "", stored |-> "none",
     stack |-> <<>>, steps |-> 0]

\* URLChunker.__init__ on a fresh store.
Init ==
    /\ text_splitter = [size |-> DefaultChunkSize, overlap |-> DefaultChunkOverlap]
    /\ db = [exists |-> {}, items |-> [c \in CollectionNames |-> {}]]
    /\ calls = 0
    /\ last = NoCall
    /\ hashed = {}
    /\ steady = TRUE
    /\ subs = {}
    /\ tried = {}
    /\ batch = Idle
    /\ threads = [t \in Threads |-> NoThread]
    /\ unit = NoUnit

\* The environments explored for one process_url(url, ...) that chunks with
\* splitter.  Every way a call can fail occurs, spread over the URLs: the
\* host of U1 can time out and its store write can break in upsert, having
\* written any subset of the records; the host of U2 can answer with an
\* HTTP error, its page "x" can fail to parse, and its store write can
\* break in get_or_create_collection.
Envs(url, splitter) ==
    LET quiet == [net |-> "ok", page |-> <<>>, parses |-> TRUE,
                  store |-> "ok", written |-> {}]
        N(p)  == Len(split_text(clean_text(p), splitter.size, splitter.overlap))
        served == {[quiet EXCEPT !.page = p] : p \in Pages(url)}
    IN  IF fetch_content(url, "ok", <<>>).kind = "raise" THEN {quiet}
        ELSE IF url = U1
        THEN {[quiet EXCEPT !.net = "timeout"]} \cup served
             \cup UNION {{[e EXCEPT !.store = "upsert_error", !.written = W] :
                             W \in SUBSET (1..N(e.page))} : e \in served}
        ELSE {[quiet EXCEPT !.net = "http_error"]} \cup served
             \cup {[e EXCEPT !.parses = FALSE] :
                      e \in {x \in served : x.page = <<"x">>}}
             \cup {[e EXCEPT !.store = "collection_error"] :
                      e \in {x \in served : x.page = <<"x">>}}

\* One invocation of process_url, out being what it did, and the
\* bookkeeping about it.
Call(url, coll, pol, src, env, out) ==
    LET fetched == fetch_content(url, env.net, env.page).kind = "return"
        page == IF fetched THEN env.page ELSE None
        ok == ~out.raised /\ out.result.success
        sig == [url |-> url, page |-> page, size |-> pol.size,
                overlap |-> pol.overlap, collection |-> coll]
        keeps == steady /\ ok /\ \A s \in subs :
                    s.collection = coll /\ (s.url = url => s = sig)
    IN  /\ text_splitter' = out.text_splitter
        /\ db' = out.db
        /\ calls' = calls + 1
        /\ last' =
             [valid |-> TRUE, url |-> url, collection |-> coll,
              size |-> pol.size, overlap |-> pol.overlap, source |-> src,
              page |-> page, text |-> out.text, recs |-> out.recs,
              raised |-> out.raised, result |-> out.result,
              error |-> out.error,
              written |-> IF out.error = "upsert_error" THEN env.written ELSE {},
              before |-> db.items[coll],
              idsBefore |-> Ids(db.items[coll]),
              idsAfter |-> Ids(out.db.items[coll]),
              countAfter |-> Count(out.db, coll),
              repeat |-> /\ last.valid /\ last.url = url
                         /\ last.collection = coll
                         /\ last.size = pol.size /\ last.overlap = pol.overlap
                         /\ fetched /\ last.page = page,
              prevSuccess |-> last.valid /\ ~last.raised /\ last.result.success,
              prevCountAfter |-> last.countAfter,
              resubmit |-> \E s \in subs : s.url = url,
              fetch_calls |-> out.fetch_calls,
              existedBefore |-> coll \in db.exists]
        /\ hashed' = hashed \cup
             {[url |-> out.recs[k].metadata.url,
               index |-> out.recs[k].metadata.chunk_index,
               text |-> out.recs[k].document, id |-> out.recs[k].id]
              : k \in DOMAIN out.recs}
        /\ steady' = keeps
        /\ subs' = IF keeps THEN subs \cup {sig} ELSE {}
        /\ UNCHANGED <<threads, unit>>

\* A caller invokes process_url directly.
ProcessUrl ==
    /\ batch.pc # "loop"
    /\ calls < MaxCalls
    /\ \E url \in Urls, coll \in CollectionNames, shape \in CallShapes :
          \E env \in Envs(url, select_splitter(text_splitter, shape.size,
                                                shape.overlap)) :
             \E out \in {process_url(text_splitter, db, url, coll, shape.size,
                                      shape.overlap, shape.source, env,
                                      calls + 1)} :
                Call(url, coll, shape, shape.source, env, out)
    /\ batch' = Idle
    /\ UNCHANGED tried

\* All lists of 1..n URLs.
RECURSIVE UrlLists(_)
UrlLists(n) ==
    IF n = 0 THEN {<<>>}
    ELSE LET S == UrlLists(n - 1)
         IN  S \cup {Append(l, u) : l \in {x \in S : Len(x) = n - 1}, u \in Urls}

\* A caller invokes process_multiple_urls: results = [].
BatchStart ==
    /\ batch.pc # "loop"
    /\ \E urls \in UrlLists(MaxCalls - calls) \ {<<>>},
          coll \in CollectionNames, shape \in CallShapes :
          batch' = [Idle EXCEPT !.pc = "loop", !.urls = urls,
                                !.collection = coll, !.size = shape.size,
                                !.overlap = shape.overlap,
                                !.source = shape.source]
    /\ UNCHANGED <<text_splitter, db, calls, last, hashed, subs, steady, tried,
                   threads, unit>>

\* One iteration of the loop: process_url on the next URL.
BatchStep ==
    /\ batch.pc = "loop"
    /\ ~loop_done(batch.urls, batch.i, batch.results)
    /\ LET url == batch.urls[batch.i]
           pol == [size |-> batch.size, overlap |-> batch.overlap]
       IN  \E env \in Envs(url, select_splitter(text_splitter, pol.size, pol.overlap)) :
            \E out \in {process_url(text_splitter, db, url, batch.collection,
                                     pol.size, pol.overlap, batch.source,
                                     env, calls + 1)} :
             /\ Call(url, batch.collection, pol, batch.source, env, out)
             /\ LET ok == ~out.raised /\ out.result.success
                IN  batch' = [batch EXCEPT
                       !.i = @ + 1,
                       !.results = append_result(@, url, out),
                       !.attempted = Append(@, url),
                       !.errors = Append(@, IF out.error # "none" THEN out.error
                                            ELSE IF ok THEN "none"
                                            ELSE out.result.error),
                       !.upserted = Append(@, Cardinality(
                           {r \in out.db.items[batch.collection] :
                               r.metadata.processed_date = calls + 1})),
                       !.chars = Append(@, IF ok THEN Len(clean_text(env.page))
                                           ELSE 0)]
    /\ UNCHANGED tried

\* The loop is over: the totals are computed and results is returned.
BatchReturn ==
    /\ batch.pc = "loop"
    /\ loop_done(batch.urls, batch.i, batch.results)
    /\ batch' = [batch EXCEPT !.pc = "done",
                              !.successful = CountSuccess(batch.results),
                              !.total_chunks = SumChunks(batch.results)]
    /\ UNCHANGED <<text_splitter, db, calls, last, hashed, subs, steady, tried,
                   threads, unit>>

Next == ProcessUrl \/ BatchStart \/ BatchStep \/ BatchReturn

Spec == Init /\ [][Next]_vars

TypeOK ==
    /\ text_splitter \in Policies
    /\ db.exists \subseteq CollectionNames
    /\ calls \in 0..MaxCalls
    /\ batch.pc \in {"idle", "loop", "done"}

(***************************************************************************)
(* process_url called again after a failed store write.                    *)
(***************************************************************************)

\* What a call identifies a submission by.
Submission(url, coll, pol, page) ==
    [url |-> url, page |-> page, size |-> pol.size, overlap |-> pol.overlap,
     collection |-> coll]

\* tried after a call that built the records out.recs: a submission
\* enters when its store write fails on a collection holding no record of
\* its URL, and leaves when its URL is written with another page or other
\* parameters.
TriedAfter(url, coll, pol, env, out) ==
    IF out.recs = <<>> THEN tried
    ELSE {s \in tried : s.url # url \/ s = Submission(url, coll, pol, env.page)}
         \cup (IF /\ out.error \in {"collection_error", "upsert_error"}
                  /\ \A r \in db.items[coll] : r.metadata.url # url
               THEN {Submission(url, coll, pol, env.page)} ELSE {})

\* A caller invokes process_url directly, as in ProcessUrl.
ProcessUrlRetry ==
    /\ calls < MaxCalls
    /\ \E url \in Urls, coll \in CollectionNames, shape \in CallShapes :
          \E env \in Envs(url, select_splitter(text_splitter, shape.size,
                                                shape.overlap)) :
             \E out \in {process_url(text_splitter, db, url, coll, shape.size,
                                      shape.overlap, shape.source, env,
                                      calls + 1)} :
                /\ Call(url, coll, shape, shape.source, env, out)
                /\ tried' = TriedAfter(url, coll, shape, env, out)
    /\ batch' = Idle

SpecRetry == Init /\ [][ProcessUrlRetry]_vars

(***************************************************************************)
(* process_url with chunk parameters that are no valid policy.             *)
(***************************************************************************)

\* Number of process_url invocations explored with such parameters.
MaxPolicyCalls == 2

\* chunk_overlap equal to chunk_size, chunk_overlap larger than chunk_size,
\* and the defaults.
PolicyShapes ==
    { [size |-> 3, overlap |-> 3, source |-> None],
      [size |-> 3, overlap |-> 4, source |-> None],
      [size |-> DefaultChunkSize, overlap |-> DefaultChunkOverlap, source |-> None] }

\* A caller invokes process_url with one of these.
ProcessUrlPolicy ==
    /\ calls < MaxPolicyCalls
    /\ \E url \in Urls, coll \in CollectionNames, shape \in PolicyShapes :
          \E env \in Envs(url, select_splitter(text_splitter, shape.size,
                                                shape.overlap)) :
             \E out \in {process_url(text_splitter, db, url, coll, shape.size,
                                      shape.overlap, shape.source, env,
                                      calls + 1)} :
                Call(url, coll, shape, shape.source, env, out)
    /\ batch' = Idle
    /\ UNCHANGED tried

SpecPolicy == Init /\ [][ProcessUrlPolicy]_vars

(***************************************************************************)
(* Two threads calling process_url on the same URLChunker.  A thread can   *)
(* be preempted between any two statements; the steps below are those      *)
(* that read or write what the threads share: self.text_splitter and the   *)
(* store.                                                                  *)
(***************************************************************************)

\* The chunk parameters the threads pass; none is the default pair.
ThreadShapes ==
    { [size |-> 3, overlap |-> 0, source |-> <<"w">>],
      [size |-> 6, overlap |-> 0, source |-> None] }

\* A thread calls process_url(url, coll, chunk_size, chunk_overlap, source);
\* net and page are what its fetch will meet.
ThreadBegin(t) ==
    /\ threads[t].pc = "idle"
    /\ \E url \in Urls \ {U3}, coll \in CollectionNames, shape \in ThreadShapes,
          net \in {"ok", "timeout"} :
          \E page \in IF net = "ok" THEN Pages(url) ELSE {<<>>} :
             threads' = [threads EXCEPT ![t] =
                [NoThread EXCEPT !.pc = "select", !.url = url,
                                 !.collection = coll, !.size = shape.size,
                                 !.overlap = shape.overlap,
                                 !.source = shape.source,
                                 !.net = net, !.page = page]]
    /\ UNCHANGED <<text_splitter, db, calls, last, hashed, subs, steady, tried,
                   batch, unit>>

\* Lines 284-291: the thread stores its splitter in self.text_splitter.
ThreadSelect(t) ==
    /\ threads[t].pc = "select"
    /\ text_splitter' = select_splitter(text_splitter, threads[t].size,
                                        threads[t].overlap)
    /\ threads' = [threads EXCEPT ![t].pc = "fetch"]
    /\ UNCHANGED <<db, calls, last, hashed, subs, steady, tried, batch, unit>>

\* Lines 293-309: fetch_content, extract_metadata, extract_text and the
\* test for empty text; an exception goes to the except clause.
ThreadFetch(t) ==
    /\ threads[t].pc = "fetch"
    /\ \E f \in {fetch_content(threads[t].url, threads[t].net, threads[t].page)} :
          IF f.kind = "raise"
          THEN threads' = [threads EXCEPT
                  ![t].pc = "done",
                  ![t].result = process_url_except(threads[t].url, f.error).result]
          ELSE \E x \in {extract_text(f.html, TRUE)} :
                 IF Strip(x.text) = <<>>
                 THEN threads' = [threads EXCEPT
                         ![t].pc = "done", ![t].text = x.text,
                         ![t].result = FailureResult(threads[t].url, "empty_content")]
                 ELSE threads' = [threads EXCEPT
                         ![t].pc = "chunk", ![t].text = x.text,
                         ![t].now = calls + 1]
    /\ calls' = calls + 1
    /\ UNCHANGED <<text_splitter, db, last, hashed, subs, steady, tried, batch,
                   unit>>

\* Line 312: create_chunks splits with the splitter self.text_splitter
\* holds at this moment (line 358).
ThreadChunk(t) ==
    /\ threads[t].pc = "chunk"
    /\ threads' = [threads EXCEPT
          ![t].pc = "save",
          ![t].recs = create_chunks(text_splitter, threads[t].text,
                         extract_metadata(threads[t].page, threads[t].url,
                                          threads[t].now),
                         threads[t].source)]
    /\ UNCHANGED <<text_splitter, db, calls, last, hashed, subs, steady, tried,
                   batch, unit>>

\* Lines 315-332: save_to_chroma, then the success result.
ThreadSave(t) ==
    /\ threads[t].pc = "save"
    /\ \E w \in {save_to_chroma(db, threads[t].recs, threads[t].collection,
                                 "ok", {})} :
          /\ db' = w.db
          /\ threads' = [threads EXCEPT
                ![t].pc = "done",
                ![t].result = SuccessResult(threads[t].url, threads[t].recs,
                                 threads[t].text,
                                 extract_metadata(threads[t].page, threads[t].url,
                                                  threads[t].now))]
    /\ UNCHANGED <<text_splitter, calls, last, hashed, subs, steady, tried, batch,
                   unit>>

NextThreads ==
    \E t \in Threads :
        \/ ThreadBegin(t)
        \/ ThreadSelect(t)
        \/ ThreadFetch(t)
        \/ ThreadChunk(t)
        \/ ThreadSave(t)

SpecThreads == Init /\ [][NextThreads]_vars

(***************************************************************************)
(* Direct calls: the splitter on a text, and create_chunks on a text with  *)
(* base metadata and a source name, as the integration test makes them     *)
(* after setting url_chunker.text_splitter itself.                         *)
(***************************************************************************)

\* Longest text drawn, and largest chunk size drawn.
MaxLen == 5
MaxSize == 3

Alphabet == {"a", " ", "."}

\* All texts of at most n characters.
RECURSIVE Texts(_)
Texts(n) ==
    IF n = 0 THEN {<<>>}
    ELSE LET S == Texts(n - 1)
         IN  S \cup {Append(t, c) : t \in {x \in S : Len(x) = n - 1}, c \in Alphabet}

\* "A. B. C. D." and the separator list [". ", " ", ""].
ExampleText == <<"A", ".", " ", "B", ".", " ", "C", ".", " ", "D", ".">>
ExampleSeparators == << <<".", " ">>, <<" ">>, <<>> >>

\* The valid (chunk_size, chunk_overlap) pairs up to MaxSize, and 5/2.
ValidPolicies ==
    {p \in [size : 1..MaxSize, overlap : 0..(MaxSize - 1)] : p.overlap < p.size}
        \cup {[size |-> 5, overlap |-> 2]}

\* Base metadata without and with a source key of its own.
BaseMetadatas ==
    { extract_metadata(<<>>, U1, 0),
      [url |-> U1, processed_date |-> 0, title |-> <<>>, description |-> <<>>,
       keywords |-> <<>>, author |-> <<>>, language |-> <<>>,
       source |-> <<"d">>] }

\* source_name: None (the default), the empty string, "w".
SourceNames == {None, <<>>, <<"w">>}

\* A URLChunker whose text_splitter the caller has set, and the arguments
\* of the call to come.
InitChunks ==
    /\ text_splitter \in ValidPolicies
    /\ db = [exists |-> {}, items |-> [c \in CollectionNames |-> {}]]
    /\ calls = 0
    /\ last = NoCall
    /\ hashed = {}
    /\ steady = TRUE
    /\ subs = {}
    /\ tried = {}
    /\ batch = Idle
    /\ threads = [t \in Threads |-> NoThread]
    /\ \E text \in Texts(MaxLen) \cup {ExampleText},
          metadata \in BaseMetadatas, source_name \in SourceNames :
          unit = [NoUnit EXCEPT
                    !.pc = "input", !.text = text,
                    !.separators = IF text = ExampleText THEN ExampleSeparators
                                   ELSE separators,
                    !.metadata = metadata, !.source_name = source_name]

\* text_splitter.split_text(text) with the separators of the call.
Split ==
    /\ unit.pc = "input"
    /\ unit' = [unit EXCEPT
          !.pc = "split",
          !.chunks = split(unit.text,
                           [size |-> text_splitter.size,
                            overlap |-> text_splitter.overlap,
                            separators |-> unit.separators])]
    /\ UNCHANGED <<text_splitter, db, calls, last, hashed, subs, steady, tried,
                   batch, threads>>

\* create_chunks(text, metadata, source_name); chunks is what line 358 got
\* from the splitter.
CreateChunks ==
    /\ unit.pc = "input"
    /\ unit.separators = separators
    /\ unit' = [unit EXCEPT
          !.pc = "created",
          !.chunks = split_text(unit.text, text_splitter.size,
                                text_splitter.overlap),
          !.recs = create_chunks(text_splitter, unit.text, unit.metadata,
                                 unit.source_name),
          !.heap = create_chunks_loop(
                       <<unit.metadata>>, 1,
                       split_text(unit.text, text_splitter.size,
                                  text_splitter.overlap),
                       unit.source_name, <<>>, 0).heap,
          !.metadatas = create_chunks_loop(
                       <<unit.metadata>>, 1,
                       split_text(unit.text, text_splitter.size,
                                  text_splitter.overlap),
                       unit.source_name, <<>>, 0).metadatas]
    /\ UNCHANGED <<text_splitter, db, calls, last, hashed, subs, steady, tried,
                   batch, threads>>

\* save_to_chroma(chunks_data, collection_name) on what create_chunks
\* returned, as the integration test calls it.  A failed upsert had written
\* nothing or the first record.
SaveToChroma ==
    /\ unit.pc = "created"
    /\ unit.recs # <<>>
    /\ \E coll \in CollectionNames, outcome \in StoreOutcomes :
       \E W \in (IF outcome = "upsert_error" THEN {{}, {1}} ELSE {{}}) :
       \E w \in {save_to_chroma(db, unit.recs, coll, outcome, W)} :
          /\ db' = w.db
          /\ unit' = [unit EXCEPT !.pc = "saved", !.collection = coll,
                                  !.stored = w.kind]
    /\ UNCHANGED <<text_splitter, calls, last, hashed, subs, steady, tried,
                   batch, threads>>

NextChunks == Split \/ CreateChunks \/ SaveToChroma

SpecChunks == InitChunks /\ [][NextChunks]_vars

(***************************************************************************)
(* The splitter step by step (section 4.1): one action per iteration of    *)
(* the packing loop.  stack holds one frame per level of the recursion     *)
(* over the separator list, the innermost last: the pieces still to pack,  *)
(* the running buffer, and the separators left for an oversized piece.     *)
(***************************************************************************)

\* Steps 1 and 2: the frame that packs text with the separators seps.
Frame(text, seps) ==
    LET k == ChooseSeparator(text, seps)
    IN  [pieces |-> SplitOn(text, IF k = 0 THEN <<>> ELSE seps[k]),
         buffer |-> <<>>,
         rest   |-> IF k = 0 THEN <<>> ELSE SubSeq(seps, k + 1, Len(seps))]

\* A completed chunk is emitted if the buffer is non-empty.
Emit(chunks, buffer) == IF buffer = <<>> THEN chunks ELSE Append(chunks, buffer)

\* A variant of step 3 that seeds the new buffer and tests the piece again.
pack_overflow_retest(frame, overlap) ==
    [frame EXCEPT !.buffer = OverlapTail(@, overlap)]

\* Step 3, the piece does not fit: the new buffer is the overlap tail of the
\* emitted chunk followed by the piece.
pack_overflow(frame, overlap) ==
    [frame EXCEPT !.pieces = Tail(@),
                  !.buffer = OverlapTail(@, overlap) \o Head(frame.pieces)]

\* What is left to do: one step per frame to leave it, and for every piece
\* its length weighted by the levels of recursion it can still open.
RECURSIVE PiecesMeasure(_, _)
PiecesMeasure(pieces, weight) ==
    IF pieces = <<>> THEN 0
    ELSE Len(Head(pieces)) * weight + PiecesMeasure(Tail(pieces), weight)

RECURSIVE Measure(_)
Measure(stack) ==
    IF stack = <<>> THEN 0
    ELSE 1 + PiecesMeasure(Head(stack).pieces, 3 ^ Len(Head(stack).rest))
           + Measure(Tail(stack))

\* A text and a policy, as in InitChunks, with the metadata left aside.
InitSplit ==
    /\ text_splitter \in ValidPolicies
    /\ db = [exists |-> {}, items |-> [c \in CollectionNames |-> {}]]
    /\ calls = 0
    /\ last = NoCall
    /\ hashed = {}
    /\ steady = TRUE
    /\ subs = {}
    /\ tried = {}
    /\ batch = Idle
    /\ threads = [t \in Threads |-> NoThread]
    /\ \E text \in Texts(MaxLen) \cup {ExampleText} :
          unit = [NoUnit EXCEPT
                    !.pc = "input", !.text = text,
                    !.separators = IF text = ExampleText THEN ExampleSeparators
                                   ELSE separators]

\* split is called: steps 1 and 2 on the whole text.
SplitBegin ==
    /\ unit.pc = "input"
    /\ unit' = [unit EXCEPT !.pc = "packing",
                            !.stack = <<Frame(unit.text, unit.separators)>>]
    /\ UNCHANGED <<text_splitter, db, calls, last, hashed, subs, steady, tried,
                   batch, threads>>

\* One iteration of the packing loop of the innermost frame (steps 3-5).
PackStep ==
    /\ unit.pc = "packing"
    /\ unit.stack # <<>>
    /\ LET n     == Len(unit.stack)
           f     == unit.stack[n]
           below == SubSeq(unit.stack, 1, n - 1)
           size  == text_splitter.size
           overlap == text_splitter.overlap
       IN  IF f.pieces = <<>>
           THEN unit' = [unit EXCEPT !.steps = @ + 1, !.stack = below,
                                     !.chunks = Emit(@, f.buffer)]
           ELSE IF Len(Head(f.pieces)) > size
           THEN unit' = [unit EXCEPT
                   !.steps = @ + 1,
                   !.chunks = Emit(@, f.buffer)
                                \o (IF f.rest = <<>>
                                    THEN HardCut(Head(f.pieces), size, overlap)
                                    ELSE <<>>),
                   !.stack = Append(below, [f EXCEPT !.pieces = Tail(@),
                                                     !.buffer = <<>>])
                                \o (IF f.rest = <<>> THEN <<>>
                                    ELSE <<Frame(Head(f.pieces), f.rest)>>)]
           ELSE IF Len(f.buffer) + Len(Head(f.pieces)) <= size
           THEN unit' = [unit EXCEPT
                   !.steps = @ + 1,
                   !.stack = Append(below, [f EXCEPT !.pieces = Tail(@),
                                                     !.buffer = @ \o Head(f.pieces)])]
           ELSE unit' = [unit EXCEPT
                   !.steps = @ + 1,
                   !.chunks = Append(@, f.buffer),
                   !.stack = Append(below, pack_overflow(f, overlap))]
    /\ UNCHANGED <<text_splitter, db, calls, last, hashed, subs, steady, tried,
                   batch, threads>>

\* Step 6, and split returns.
SplitEnd ==
    /\ unit.pc = "packing"
    /\ unit.stack = <<>>
    /\ unit' = [unit EXCEPT !.pc = "split",
                            !.chunks = SelectSeq(@, LAMBDA c : Strip(c) # <<>>)]
    /\ UNCHANGED <<text_splitter, db, calls, last, hashed, subs, steady, tried,
                   batch, threads>>

NextSplit == SplitBegin \/ PackStep \/ SplitEnd

SpecSplit == InitSplit /\ [][NextSplit]_vars

(***************************************************************************)
(* ChromaDBManager (src/src/chroma_manager.py): add_texts, count_items and *)
(* peek_collection, called directly as main.py calls them.                 *)
(***************************************************************************)

\* Number of ChromaDBManager calls explored in one behaviour.
MaxManagerCalls == 2

\* The separators of a RecursiveCharacterTextSplitter built, as add_texts
\* builds it, without a separators argument: "\n\n", "\n", " ", "".
default_separators == << <<"\n", "\n">>, <<"\n">>, <<" ">>, <<>> >>

\* The texts of a call: [], [""], ["a a"], ["b", "a a"] and ["b", "b"].
TextLists ==
    { <<>>, << <<>> >>, << <<"a", " ", "a">> >>,
      << <<"b">>, <<"a", " ", "a">> >>, << <<"b">>, <<"b">> >> }

\* The other arguments of a call.  metadatas is falsy (None, the default,
\* or [], written <<>>) or a list with the metadata of the first text only;
\* chunk_size/chunk_overlap are 1/0, the defaults, or the pair 1/2.
ManagerShapes ==
    { [metadatas |-> <<>>, source |-> None, size |-> 1, overlap |-> 0],
      [metadatas |-> << [source |-> <<"d">>, author |-> <<"A", "I">>] >>,
       source |-> <<"w">>, size |-> 1, overlap |-> 0],
      [metadatas |-> << [source |-> <<"d">>, author |-> <<"A", "I">>] >>,
       source |-> <<"w">>, size |-> DefaultChunkSize,
       overlap |-> DefaultChunkOverlap],
      [metadatas |-> <<>>, source |-> <<"w">>, size |-> 1, overlap |-> 2] }

\* current_metadata of the text with 0-based index i: a copy of
\* metadatas[i] if there is one, else {}; source set for a truthy
\* source_name.
current_metadata(metadatas, i, source_name) ==
    LET base == IF metadatas # <<>> /\ i < Len(metadatas)
                THEN metadatas[i + 1] ELSE [k \in {} |-> None]
    IN  IF Truthy(source_name)
        THEN [k \in DOMAIN base \cup {"source"} |->
                 IF k = "source" THEN source_name ELSE base[k]]
        ELSE base

\* The loops of add_texts from the text with 0-based index i on: for every
\* chunk of every text, the id (a hash of the chunk's content alone), the
\* chunk and the metadata.
RECURSIVE add_texts_chunks(_, _, _, _, _)
add_texts_chunks(texts, metadatas, source_name, policy, i) ==
    IF i >= Len(texts) THEN <<>>
    ELSE Only({ [k \in 1..Len(split_chunks) |->
                   [id       |-> sha256(split_chunks[k]),
                    document |-> split_chunks[k],
                    metadata |-> current_metadata(metadatas, i, source_name)]]
                : split_chunks \in {split(texts[i + 1], policy)} })
         \o add_texts_chunks(texts, metadatas, source_name, policy, i + 1)

\* What the store does with an upsert whose ids are not pairwise distinct:
\* it refuses the whole batch, or it keeps the last record of each id.
DuplicateOutcomes == {"reject", "keep_last"}

\* The positions in W whose id no later position in W carries.
LastOfId(recs, W) ==
    {k \in W : \A j \in W : j > k => recs[j].id # recs[k].id}

\* collection.upsert(documents, ids, metadatas) of add_texts.
upsert_batch(store, recs, collection_name, outcome, dup, W) ==
    IF dup = "reject" /\ \E j, k \in DOMAIN recs : j # k /\ recs[j].id = recs[k].id
    THEN [kind |-> "raise", error |-> "duplicate_ids", db |-> store]
    ELSE LET written == IF outcome = "ok" THEN DOMAIN recs ELSE W
             store2 == [store EXCEPT !.items[collection_name] =
                        Upsert(@, recs, LastOfId(recs, written))]
         IN  IF outcome = "ok"
             THEN [kind |-> "return", error |-> "none", db |-> store2]
             ELSE [kind |-> "raise", error |-> "upsert_error", db |-> store2]

\* add_texts: get_or_create_collection, then the splitter, then the loops,
\* then the return on no chunks, then upsert; the except clause re-raises.
add_texts(store, collection_name, texts, metadatas, source_name, chunk_size, chunk_overlap, outcome, dup, W) ==
    IF outcome = "collection_error"
    THEN [kind |-> "raise", error |-> "collection_error", db |-> store]
    ELSE IF RecursiveCharacterTextSplitter(chunk_size, chunk_overlap).kind = "raise"
    THEN [kind |-> "raise", error |-> "invalid_policy",
          db |-> [store EXCEPT !.exists = @ \cup {collection_name}]]
    ELSE Only({ IF chunks = <<>>
                THEN [kind |-> "return", error |-> "none",
                      db |-> [store EXCEPT !.exists = @ \cup {collection_name}]]
                ELSE upsert_batch([store EXCEPT !.exists = @ \cup {collection_name}],
                                  chunks, collection_name, outcome, dup, W)
                : chunks \in {add_texts_chunks(
                                 texts, metadatas, source_name,
                                 [size |-> chunk_size, overlap |-> chunk_overlap,
                                  separators |-> default_separators], 0)} })

\* How a read of the store can end.
ReadOutcomes == {"ok", "error"}

\* count_items: get_collection and count; the except clause re-raises.
\* get_collection raises for a name the store does not hold.
count_items(store, collection_name, outcome) ==
    IF collection_name \notin store.exists
    THEN [kind |-> "raise", error |-> "not_found", value |-> None]
    ELSE IF outcome = "error"
    THEN [kind |-> "raise", error |-> "read_error", value |-> None]
    ELSE [kind |-> "return", error |-> "none",
          value |-> Cardinality(store.items[collection_name])]

\* peek_collection: get_collection and peek(limit=n), which hands back the
\* records S, the first n of the collection in the store's order; the
\* except clause re-raises.
peek_collection(store, collection_name, n, outcome, S) ==
    IF collection_name \notin store.exists
    THEN [kind |-> "raise", error |-> "not_found", value |-> None]
    ELSE IF outcome = "error"
    THEN [kind |-> "raise", error |-> "read_error", value |-> None]
    ELSE [kind |-> "return", error |-> "none", value |-> S]

\* No ChromaDBManager call yet.  For a call: the method (op), its
\* arguments, the chunks it made, how it ended (kind, error, value), the
\* store before it, and whether it repeats the texts, chunk parameters and
\* collection of an add_texts call that returned just before it (repeat).
NoManagerCall ==
    [op |-> "none", collection |-> "", texts |-> <<>>, size |-> 0,
     overlap |-> 0, chunks |-> <<>>, kind |-> "none", error |-> "none",
     value |-> None, before |-> [exists |-> {}, items |-> [c \in CollectionNames |-> {}]],
     repeat |-> FALSE]

\* A ChromaDBManager on a fresh store.
InitManager ==
    /\ text_splitter = [size |-> DefaultChunkSize, overlap |-> DefaultChunkOverlap]
    /\ db = [exists |-> {}, items |-> [c \in CollectionNames |-> {}]]
    /\ calls = 0
    /\ last = NoCall
    /\ hashed = {}
    /\ steady = TRUE
    /\ subs = {}
    /\ tried = {}
    /\ batch = Idle
    /\ threads = [t \in Threads |-> NoThread]
    /\ unit = NoManagerCall

AddTexts ==
    /\ calls < MaxManagerCalls
    /\ \E coll \in CollectionNames, texts \in TextLists,
          shape \in ManagerShapes, outcome \in StoreOutcomes :
       \E chunks \in {add_texts_chunks(
                         texts, shape.metadatas, shape.source,
                         [size |-> shape.size, overlap |-> shape.overlap,
                          separators |-> default_separators], 0)} :
       \E dup \in (IF outcome = "ok" THEN DuplicateOutcomes ELSE {"keep_last"}),
          W \in (IF outcome = "upsert_error" THEN SUBSET DOMAIN chunks ELSE {{}}) :
       \E out \in {add_texts(db, coll, texts, shape.metadatas, shape.source,
                             shape.size, shape.overlap, outcome, dup, W)} :
          /\ db' = out.db
          /\ unit' = [op |-> "add_texts", collection |-> coll,
                      texts |-> texts, size |-> shape.size,
                      overlap |-> shape.overlap,
                      chunks |-> [k \in DOMAIN chunks |-> chunks[k].document],
                      kind |-> out.kind, error |-> out.error,
                      value |-> None, before |-> db,
                      repeat |-> /\ unit.op = "add_texts"
                                 /\ unit.kind = "return"
                                 /\ unit.collection = coll
                                 /\ unit.texts = texts
                                 /\ unit.size = shape.size
                                 /\ unit.overlap = shape.overlap]
    /\ calls' = calls + 1
    /\ UNCHANGED <<text_splitter, last, hashed, subs, steady, tried, batch,
                   threads>>

CountItems ==
    /\ calls < MaxManagerCalls
    /\ \E coll \in CollectionNames, outcome \in ReadOutcomes :
          \E out \in {count_items(db, coll, outcome)} :
             unit' = [NoManagerCall EXCEPT
                        !.op = "count_items", !.collection = coll,
                        !.kind = out.kind, !.error = out.error,
                        !.value = out.value, !.before = db]
    /\ calls' = calls + 1
    /\ UNCHANGED <<text_splitter, db, last, hashed, subs, steady, tried, batch,
                   threads>>

PeekCollection ==
    /\ calls < MaxManagerCalls
    /\ \E coll \in CollectionNames, n \in {1, 5}, outcome \in ReadOutcomes :
       \E S \in SUBSET db.items[coll] :
          /\ Cardinality(S) = IF Cardinality(db.items[coll]) < n
                              THEN Cardinality(db.items[coll]) ELSE n
          /\ \E out \in {peek_collection(db, coll, n, outcome, S)} :
                unit' = [NoManagerCall EXCEPT
                           !.op = "peek_collection", !.collection = coll,
                           !.kind = out.kind, !.error = out.error,
                           !.value = out.value, !.before = db]
    /\ calls' = calls + 1
    /\ UNCHANGED <<text_splitter, db, last, hashed, subs, steady, tried, batch,
                   threads>>

NextManager == AddTexts \/ CountItems \/ PeekCollection

SpecManager == InitManager /\ [][NextManager]_vars

(***************************************************************************)
(* Cancelling a batch.  process_multiple_urls takes no cancellation        *)
(* argument and checks no flag: the one way a caller can cancel the        *)
(* running loop is to interrupt it (KeyboardInterrupt).  That is not an    *)
(* Exception, so neither `except Exception` clause catches it: it leaves   *)
(* process_url and process_multiple_urls, and results is never returned.   *)
(***************************************************************************)

\* Where the interrupt can reach process_url: in the fetch of line 293, or
\* in the upsert of save_to_chroma.
InterruptPoints == {"fetch", "upsert"}

\* The caller interrupts the loop while process_url works on the next URL.
\* An interrupted upsert has written the records the store had taken.
BatchInterrupt ==
    /\ batch.pc = "loop"
    /\ ~loop_done(batch.urls, batch.i, batch.results)
    /\ \E point \in InterruptPoints :
       \E held \in {select_splitter(text_splitter, batch.size, batch.overlap)} :
          IF point = "fetch"
          THEN /\ text_splitter' = held
               /\ db' = db
          ELSE \E env \in {e \in Envs(batch.urls[batch.i], held) :
                              e.store = "upsert_error"} :
               \E out \in {process_url(text_splitter, db, batch.urls[batch.i],
                                       batch.collection, batch.size,
                                       batch.overlap, batch.source, env,
                                       calls + 1)} :
                  /\ text_splitter' = out.text_splitter
                  /\ db' = out.db
    /\ batch' = [batch EXCEPT !.pc = "interrupted",
                              !.attempted = Append(@, batch.urls[batch.i])]
    /\ calls' = calls + 1
    /\ UNCHANGED <<last, hashed, subs, steady, tried, threads, unit>>

NextCancel == BatchStart \/ BatchStep \/ BatchReturn \/ BatchInterrupt

SpecCancel == Init /\ [][NextCancel]_vars

(***************************************************************************)
(* Properties                                                              *)
(***************************************************************************)

Succeeded(c) == c.valid /\ ~c.raised /\ c.result.success
Items == db.items[last.collection]

\* C1 as stated: when process_url is called twice in a row with the same
\* URL, collection and chunk parameters and fetches the same page both
\* times, the item count after the second call equals the count after the
\* first.
C1_CountUnchangedOriginal ==
    last.repeat => last.countAfter = last.prevCountAfter

\* C1 as amended: the same, provided the first of the two calls returned
\* success.
C1_CountUnchanged ==
    (last.repeat /\ last.prevSuccess) => last.countAfter = last.prevCountAfter

\* Two identical calls in a row, both successful, on a two-chunk document.
C1_Witness ==
    /\ last.repeat /\ last.prevSuccess /\ Succeeded(last)
    /\ Len(last.recs) = 2 /\ last.countAfter >= 2

\* C2: while every URL always serves the same page and comes with the same
\* chunk parameters (and every call succeeds, into one collection),
\* re-submitting a URL never adds record ids to the collection.
C2_ResubmitAddsNothing ==
    (last.valid /\ steady /\ last.resubmit) => last.idsAfter = last.idsBefore

\* C3: every process_url call that chunks its text chunks it with the
\* chunk_size and chunk_overlap passed to that call.
C3_ChunksWithPassedParameters ==
    (last.valid /\ last.recs # <<>>) =>
        [k \in DOMAIN last.recs |-> last.recs[k].document]
            = split_text(last.text, last.size, last.overlap)

\* C4: two different (url, chunk index, chunk text) triples never give the
\* same hashed string, hence never the same id.
C4_HashInputInjective ==
    \A p, q \in hashed : p.id = q.id => p = q

\* C5: the id is a function of (url, chunk index, chunk text) alone: all
\* ids computed so far for one triple, in whatever call, with whatever
\* processed_date and source name, are equal.
C5_IdPureFunction ==
    \A p, q \in hashed :
        (p.url = q.url /\ p.index = q.index /\ p.text = q.text) => p.id = q.id

\* A triple is hashed again in a later call, with another processed_date
\* and another source name than the record the store holds for it.
C5_Witness ==
    \E k \in DOMAIN last.recs : \E r \in last.before :
        /\ r.metadata.url = last.recs[k].metadata.url
        /\ r.metadata.chunk_index = last.recs[k].metadata.chunk_index
        /\ r.document = last.recs[k].document
        /\ r.metadata.processed_date # last.recs[k].metadata.processed_date
        /\ r.metadata.source # last.recs[k].metadata.source

\* C6: process_multiple_urls returns one result per input URL, in input
\* order, whichever URLs succeed or fail.
C6_OneResultPerUrl ==
    batch.pc = "done" =>
        /\ Len(batch.results) = Len(batch.urls)
        /\ \A k \in DOMAIN batch.urls : batch.results[k].url = batch.urls[k]

\* A returned batch of three URLs with both a failure and a success.
C6_Witness ==
    /\ batch.pc = "done" /\ Len(batch.urls) = 3
    /\ \E j, k \in DOMAIN batch.results :
          batch.results[j].success /\ ~batch.results[k].success

\* C7: when process_multiple_urls returns, process_url has been invoked on
\* every URL of the list, in order; a URL that failed has that failure as
\* its result, and a URL on which nothing failed was chunked and upserted.
C7_FailureDoesNotStopBatch ==
    batch.pc = "done" =>
        /\ batch.attempted = batch.urls
        /\ \A k \in DOMAIN batch.errors :
              IF batch.errors[k] # "none"
              THEN /\ ~batch.results[k].success
                   /\ batch.results[k].error = batch.errors[k]
              ELSE /\ batch.results[k].success
                   /\ batch.upserted[k] >= 1
                   /\ batch.upserted[k] = batch.results[k].chunks_created

\* A returned batch in which a failure is followed by a success.
C7_Witness ==
    /\ batch.pc = "done"
    /\ \E j, k \in DOMAIN batch.errors :
          j < k /\ batch.errors[j] # "none" /\ batch.errors[k] = "none"

\* The errors fetch_content raises.
FetchErrors == {"invalid_url", "timeout", "http_error"}

\* The character count summed over the successful results.
RECURSIVE SumCharacters(_)
SumCharacters(results) ==
    IF results = <<>> THEN 0
    ELSE (IF Head(results).success THEN Head(results).total_characters ELSE 0)
         + SumCharacters(Tail(results))

OnlySecondFetchFails ==
    /\ batch.pc = "done" /\ Len(batch.urls) = 3
    /\ batch.errors[1] = "none" /\ batch.errors[3] = "none"
    /\ batch.errors[2] \in FetchErrors

\* C8: in a batch of 3 URLs where only the second fetch fails, the results
\* hold one failure, at the second position, and two successes, and the
\* chunk and character totals over the results are those of the first and
\* third documents.
C8_PartialFailureAggregate ==
    OnlySecondFetchFails =>
        /\ batch.results[1].success /\ batch.results[3].success
        /\ ~batch.results[2].success
        /\ batch.successful = 2
        /\ batch.total_chunks = batch.upserted[1] + batch.upserted[3]
        /\ SumChunks(batch.results) = batch.upserted[1] + batch.upserted[3]
        /\ SumCharacters(batch.results) = batch.chars[1] + batch.chars[3]

\* Such a batch, with a two-chunk and a one-chunk document.
C8_Witness ==
    OnlySecondFetchFails /\ batch.total_chunks = 3

\* Everything that can go wrong in a call.
CallErrors == FetchErrors \cup {"parse_error", "collection_error", "upsert_error"}

ItemsOfUrl == {r \in Items : r.metadata.url = last.url}

\* The submission of the last call.
LastSubmission ==
    Submission(last.url, last.collection,
               [size |-> last.size, overlap |-> last.overlap], last.page)

\* C11: when a process_url call succeeds after an earlier call for the same
\* URL, page content, chunk parameters and collection failed in the store
\* write (the collection holding nothing of that URL before, and the URL
\* not having been written otherwise since), the collection holds for that
\* URL exactly the records of the successful call, one per id.
C11_RetryAfterStoreFailure ==
    (Succeeded(last) /\ LastSubmission \in tried) =>
        /\ Ids(ItemsOfUrl) = {last.recs[k].id : k \in DOMAIN last.recs}
        /\ Cardinality(ItemsOfUrl) = Len(last.recs)

\* C12: a process_url call whose chunk_overlap is at least its chunk_size,
\* or whose chunk_size is not positive, does nothing: it does not call
\* fetch_content, creates no collection and writes no record.
C12_InvalidPolicyRejected ==
    (last.valid /\ (last.overlap >= last.size \/ last.size <= 0)) =>
        /\ last.fetch_calls = 0
        /\ (last.collection \in db.exists) = last.existedBefore
        /\ Items = last.before

\* C13: when two process_url calls run in two threads on one URLChunker,
\* each with chunk parameters of its own, every call that has chunked its
\* text has chunked it with the chunk_size and chunk_overlap passed to it.
C13_ConcurrentCallsOwnParameters ==
    \A t \in Threads :
        threads[t].pc \in {"save", "done"} /\ threads[t].recs # <<>> =>
            [k \in DOMAIN threads[t].recs |-> threads[t].recs[k].document]
                = split_text(threads[t].text, threads[t].size, threads[t].overlap)

\* A chunk no separator of the list can split: the list has no empty
\* separator and none of its separators occurs in the chunk.
AtomicUnit(chunk, seps) ==
    \A k \in DOMAIN seps : seps[k] # <<>> /\ FirstOccurrence(chunk, seps[k]) = 0

\* C14: every chunk split returns for a valid policy has at most
\* targetSize characters, unless it is a unit no separator can split.
C14_ChunkSizeBound ==
    unit.pc = "split" =>
        \A k \in DOMAIN unit.chunks :
            \/ Len(unit.chunks[k]) <= text_splitter.size
            \/ AtomicUnit(unit.chunks[k], unit.separators)

\* C15: for overlap > 0, when split returns two or more chunks, the
\* trailing overlap characters of each chunk (the whole chunk, if it is
\* shorter) are the leading characters of the next chunk.
C15_OverlapBetweenNeighbours ==
    (unit.pc = "split" /\ text_splitter.overlap > 0 /\ Len(unit.chunks) >= 2) =>
        \A k \in 1..(Len(unit.chunks) - 1) :
            \E tail \in {OverlapTail(unit.chunks[k], text_splitter.overlap)} :
                /\ Len(tail) <= Len(unit.chunks[k + 1])
                /\ SubSeq(unit.chunks[k + 1], 1, Len(tail)) = tail

\* The first chunk followed by every later chunk without its first
\* overlap characters.
RECURSIVE Rejoin(_, _)
Rejoin(chunks, overlap) ==
    IF chunks = <<>> THEN <<>>
    ELSE IF Len(chunks) = 1 THEN chunks[1]
    ELSE Rejoin(SubSeq(chunks, 1, Len(chunks) - 1), overlap)
         \o SubSeq(chunks[Len(chunks)], overlap + 1, Len(chunks[Len(chunks)]))

ExampleSplit ==
    /\ unit.pc = "split" /\ unit.text = ExampleText
    /\ unit.separators = ExampleSeparators
    /\ text_splitter = [size |-> 5, overlap |-> 2]

\* C16: split of "A. B. C. D." with targetSize 5, overlap 2 and the
\* separators [". ", " ", ""] returns chunks of at most 5 characters which,
\* each but the first shortened by its first 2 characters, concatenate to
\* the text.
C16_ExampleReconstructs ==
    ExampleSplit =>
        /\ \A k \in DOMAIN unit.chunks : Len(unit.chunks[k]) <= 5
        /\ Rejoin(unit.chunks, 2) = ExampleText

\* The example has been split, into the four chunks "A. ", ". B. ", ". C. "
\* and ". D.".
C16_Witness ==
    /\ ExampleSplit
    /\ unit.chunks = << <<"A", ".", " ">>, <<".", " ", "B", ".", " ">>,
                        <<".", " ", "C", ".", " ">>, <<".", " ", "D", ".">> >>

\* C17 as stated: split of a text shorter than targetSize returns exactly
\* one chunk.
C17_ShortTextOneChunkOriginal ==
    (unit.pc = "split" /\ Len(unit.text) < text_splitter.size) =>
        Len(unit.chunks) = 1

\* C17 as amended: split of a text shorter than targetSize that is not
\* empty or whitespace-only returns exactly one chunk.
C17_ShortTextOneChunk ==
    (unit.pc = "split" /\ Len(unit.text) < text_splitter.size
        /\ Strip(unit.text) # <<>>) =>
        Len(unit.chunks) = 1

\* A text of two characters with a separator in it, split with
\* targetSize 3.
C17_Witness ==
    /\ unit.pc = "split" /\ unit.text = <<".", " ">>
    /\ text_splitter.size = 3 /\ Len(unit.chunks) = 1

\* C18: create_chunks never returns an empty record sequence: whenever it
\* returns, it returns at least one record (a text whose chunking yields no
\* chunk makes it fail instead).
C18_NoEmptyRecordSequence ==
    unit.pc = "created" => unit.recs # <<>>

\* C19: create_chunks returns one record per chunk the splitter gave it,
\* in the splitter's order: record i (from 0) carries chunk i as its
\* document, chunk_index = i and chunk_size = the length of that chunk.
C19_OneRecordPerChunkInOrder ==
    unit.pc = "created" =>
        /\ Len(unit.recs) = Len(unit.chunks)
        /\ \A k \in DOMAIN unit.chunks :
              /\ unit.recs[k].document = unit.chunks[k]
              /\ unit.recs[k].metadata.chunk_index = k - 1
              /\ unit.recs[k].metadata.chunk_size = Len(unit.chunks[k])

\* create_chunks has returned three records for three chunks that differ
\* in text and in length.
C19_Witness ==
    /\ unit.pc = "created" /\ Len(unit.recs) = 3
    /\ unit.chunks[1] # unit.chunks[2] /\ unit.chunks[2] # unit.chunks[3]
    /\ Len(unit.chunks[1]) # Len(unit.chunks[3])

\* The source key of the base metadata of the call, None if it has none.
BaseSource ==
    IF "source" \in DOMAIN unit.metadata THEN unit.metadata.source ELSE None

\* C20 as stated: when create_chunks is given a source name (anything but
\* None), every record has source equal to it, whatever source the base
\* metadata has; when it is given none, every record has the source of the
\* base metadata.
C20_SourceNameOriginal ==
    unit.pc = "created" =>
        \A k \in DOMAIN unit.recs :
            unit.recs[k].metadata.source =
                IF unit.source_name # None THEN unit.source_name ELSE BaseSource

\* C20 as amended: the same, with "a non-empty source name" for "a source
\* name": given None or the empty string, every record has the source of
\* the base metadata.
C20_SourceName ==
    unit.pc = "created" =>
        \A k \in DOMAIN unit.recs :
            unit.recs[k].metadata.source =
                IF unit.source_name # None /\ unit.source_name # <<>>
                THEN unit.source_name ELSE BaseSource

\* Two records built with the source name "w" from base metadata whose
\* source is "d".
C20_Witness ==
    /\ unit.pc = "created" /\ Len(unit.recs) = 2
    /\ unit.source_name = <<"w">> /\ BaseSource = <<"d">>
    /\ unit.recs[2].metadata.source = <<"w">>
(***************************************************************************)
(* C21.  create_chunks copies every key of the base metadata other than    *)
(* chunk_index, chunk_size and source unchanged into the metadata of each  *)
(* record, leaves the caller's base metadata dict as it was, and gives     *)
(* every record a metadata dict of its own.                                *)
(***************************************************************************)
ReservedKeys == {"chunk_index", "chunk_size", "source"}

C21_MetadataCopied ==
    unit.pc = "created" =>
        /\ unit.heap[1] = unit.metadata
        /\ Len(unit.metadatas) = Len(unit.recs)
        /\ \A k \in DOMAIN unit.recs :
              /\ unit.metadatas[k] # 1
              /\ unit.heap[unit.metadatas[k]] = unit.recs[k].metadata
              /\ \A key \in DOMAIN unit.metadata \ ReservedKeys :
                    /\ key \in DOMAIN unit.heap[unit.metadatas[k]]
                    /\ unit.heap[unit.metadatas[k]][key] = unit.metadata[key]
        /\ \A j, k \in DOMAIN unit.recs :
              j # k => unit.metadatas[j] # unit.metadatas[k]

\* Two records made from base metadata with a source key, under a source
\* name that replaces it.
C21_Witness ==
    /\ unit.pc = "created"
    /\ Len(unit.recs) >= 2
    /\ "source" \in DOMAIN unit.metadata
    /\ unit.source_name = <<"w">>
    /\ unit.heap[unit.metadatas[2]].chunk_index = 1
    /\ unit.heap[1] = unit.metadata

(***************************************************************************)
(* C22.  add_texts is idempotent: a call that repeats the texts, chunk     *)
(* parameters and collection of the add_texts call before it leaves the    *)
(* item count as it was; and a call into an empty collection that the      *)
(* store does not fail adds as many records as there are distinct chunk    *)
(* texts, equal chunks being stored as one record.                         *)
(***************************************************************************)
C22_IdempotentByContent ==
    unit.op = "add_texts" =>
        /\ unit.repeat =>
              Cardinality(db.items[unit.collection])
                  = Cardinality(unit.before.items[unit.collection])
        /\ (/\ unit.before.items[unit.collection] = {}
            /\ unit.error \notin {"collection_error", "upsert_error",
                                  "invalid_policy"})
              => /\ unit.kind = "return"
                 /\ Cardinality(db.items[unit.collection])
                       = Cardinality({unit.chunks[k] : k \in DOMAIN unit.chunks})

(***************************************************************************)
(* C23.  count_items and peek_collection return None when an error occurs, *)
(* for example when the named collection does not exist, and do not raise. *)
(***************************************************************************)
C23_ReadsReturnNoneOnError ==
    (unit.op \in {"count_items", "peek_collection"} /\ unit.error # "none")
        => unit.kind = "return" /\ unit.value = None

(***************************************************************************)
(* C29.  An add_texts call whose texts produce no chunks (an empty list,   *)
(* or only empty texts) leaves the store as it was: no record is added or  *)
(* changed and no collection is created.                                   *)
(***************************************************************************)
C29_NoChunksNoStoreChange ==
    (unit.op = "add_texts" /\ unit.kind = "return" /\ unit.chunks = <<>>)
        => db = unit.before

(***************************************************************************)
(* C24.  process_url touches the store only after the fetch, the metadata  *)
(* and text extraction and the chunking have succeeded: a call that fails  *)
(* before the store write (the fetch fails, the page does not parse, the   *)
(* text is empty or whitespace-only, the splitter is refused) creates no   *)
(* collection and leaves the records of the store as they were.            *)
(***************************************************************************)
FailedBeforeStore ==
    /\ last.valid
    /\ ~Succeeded(last)
    /\ last.error \notin {"collection_error", "upsert_error"}

C24_StoreTouchedLast ==
    /\ FailedBeforeStore =>
          /\ last.recs = <<>>
          /\ Items = last.before
          /\ last.collection \in db.exists <=> last.existedBefore
    /\ (last.valid /\ (last.error \in FetchErrors
                       \/ (last.text # None /\ Strip(last.text) = <<>>)))
          => FailedBeforeStore

\* A page with whitespace-only text, processed when the collection does
\* not exist yet.
C24_Witness ==
    /\ last.valid /\ ~last.raised /\ ~last.result.success
    /\ last.error = "none"
    /\ last.result.error = "empty_content"
    /\ last.text # None /\ Strip(last.text) = <<>>
    /\ ~last.existedBefore
    /\ last.collection \notin db.exists

(***************************************************************************)
(* C25.  When the caller cancels a running batch, no further URL is        *)
(* started, the URL in flight completes or fails cleanly (it has its       *)
(* result in results) and no record already in the store is rolled back.   *)
(***************************************************************************)
C25_CancelStopsCleanly ==
    [][ (batch.pc = "loop" /\ batch'.pc = "interrupted") =>
           /\ Len(batch'.attempted) = batch.i
           /\ Len(batch'.results) = Len(batch'.attempted)
           /\ \A r \in db.items[batch.collection] :
                 \E q \in db'.items[batch.collection] : q.id = r.id ]_vars

(***************************************************************************)
(* C26.  Within one create_chunks call the strings hashed into the ids of  *)
(* two different chunk indexes differ, also when the two chunks have the   *)
(* same text; so the ids of one document are pairwise distinct, and saving *)
(* the records of one document into an empty collection stores as many     *)
(* records as there are chunks (the chunks_created of the result).         *)
(***************************************************************************)
C26_IdsDistinctWithinDocument ==
    /\ unit.pc \in {"created", "saved"} =>
          \A j, k \in DOMAIN unit.recs :
             j # k =>
                /\ HashInput(unit.metadata.url, j - 1, unit.recs[j].document)
                      # HashInput(unit.metadata.url, k - 1, unit.recs[k].document)
                /\ unit.recs[j].id # unit.recs[k].id
    /\ (unit.pc = "saved" /\ unit.stored = "return") =>
          /\ Cardinality(db.items[unit.collection]) = Len(unit.recs)
          /\ Len(unit.recs) = Len(unit.chunks)

\* A document with two chunks of the same text, saved.
C26_Witness ==
    /\ unit.pc = "saved" /\ unit.stored = "return"
    /\ \E j, k \in DOMAIN unit.recs :
          j # k /\ unit.recs[j].document = unit.recs[k].document
    /\ Cardinality(db.items[unit.collection]) = Len(unit.recs)

(***************************************************************************)
(* C27.  Every result process_url returns, and every result in the list    *)
(* process_multiple_urls builds, is of one of two shapes: success = true,  *)
(* no error key, chunks_created at least 1 and equal to the number of      *)
(* records passed to the upsert; or success = false, an error key and      *)
(* chunks_created = 0.                                                     *)
(***************************************************************************)
ResultShape(r, upserted) ==
    IF r.success
    THEN /\ "error" \notin DOMAIN r
         /\ r.chunks_created >= 1
         /\ r.chunks_created = upserted
    ELSE /\ "error" \in DOMAIN r
         /\ r.chunks_created = 0

C27_ResultShapes ==
    /\ (last.valid /\ ~last.raised) => ResultShape(last.result, Len(last.recs))
    /\ \A k \in DOMAIN batch.results :
          ResultShape(batch.results[k], batch.upserted[k])

\* A returned batch with a two-chunk success and a failure.
C27_Witness ==
    /\ batch.pc = "done"
    /\ \E j, k \in DOMAIN batch.results :
          /\ batch.results[j].success /\ batch.results[j].chunks_created = 2
          /\ ~batch.results[k].success /\ batch.results[k].chunks_created = 0
    /\ last.valid /\ ~last.raised

(***************************************************************************)
(* C28.  split terminates for every text and every valid policy            *)
(* (0 <= overlap < targetSize): every iteration of the packing loop        *)
(* lowers what is left to do by at least one, also when it seeds a buffer  *)
(* with an overlap tail that, with the next piece, exceeds targetSize; the *)
(* recursion over the separator list is never deeper than the list; and    *)
(* the loop ends with the chunks of split.                                 *)
(***************************************************************************)
C28_SplitTerminates ==
    /\ unit.pc = "packing" =>
          /\ unit.steps + Measure(unit.stack)
                <= Measure(<<Frame(unit.text, unit.separators)>>)
          /\ Len(unit.stack) <= Len(unit.separators)
          /\ \A k \in DOMAIN unit.stack :
                \A j \in DOMAIN unit.stack[k].pieces :
                   unit.stack[k].pieces[j] # <<>>
    /\ unit.pc = "split" =>
          /\ unit.steps <= Measure(<<Frame(unit.text, unit.separators)>>)
          /\ unit.chunks = split(unit.text,
                                 [size |-> text_splitter.size,
                                  overlap |-> text_splitter.overlap,
                                  separators |-> unit.separators])

\* A finished split in which a buffer seeded with the overlap tail took a
\* piece that made it longer than targetSize.
C28_Witness ==
    /\ unit.pc = "split"
    /\ text_splitter.overlap > 0
    /\ \E k \in DOMAIN unit.chunks : Len(unit.chunks[k]) > text_splitter.size
    /\ unit.steps >= 3

====
